---- MODULE Spec2Model ----
(***************************************************************************)
(* Model of src/app.py: the lane scheduler simulate_round (normal sweep    *)
(* and "quantum" greedy/priority strategy), the round loop of main that    *)
(* runs both strategies on one initial lane state, and the ambulance       *)
(* clearance report of main.                                               *)
(*                                                                         *)
(* One action per loop head / loop body of the code.  Times are kept in    *)
(* exact integer units: step_delay is in tenths of a second and            *)
(* ambulance_time holds total_steps * step_delay, i.e. the code's          *)
(* (total_steps * step_delay) / 60.0 minutes multiplied by 600.            *)
(*                                                                         *)
(* The three random savings fields of stats (lines 103-105) never feed     *)
(* back into the scheduler or the clearance report and are not carried.    *)
(* lanes_init ranges over simulate_round's parameter domain (non-negative  *)
(* counts), which is wider than what main's generator (lines 134-136)      *)
(* produces.                                                               *)
(***************************************************************************)
EXTENDS Integers, Sequences, FiniteSets, TLC

\* ---------------------------------------------------------------- bounds
MaxCars == 2
MaxQuota == 2
MaxRounds == 2

\* ------------------------------------------------------------- constants
None == -1
Lanes == 0..3
LANE_NAMES == <<"UP", "RIGHT", "DOWN", "LEFT">>
StepsPerLaneMain == 3
DefaultDelay == 5
StepDelays == {2, 20}
\* the worked example's lane state {UP:5, RIGHT:2, DOWN:0, LEFT:3}
ExampleLanes == [i \in Lanes |-> CASE i = 0 -> 5 [] i = 1 -> 2 [] i = 2 -> 0 [] OTHER -> 3]
LaneStates == [Lanes -> 0..MaxCars] \cup {ExampleLanes}
Quotas == (1..MaxQuota) \cup {StepsPerLaneMain}

VARIABLES
    rounds,          \* main: number of rounds (slider)
    r,               \* main: next round index of the for loop
    amb_lane,        \* main: ambulance lane or None
    steps_per_lane,  \* quota of decrement attempts per visit
    step_delay,      \* tenths of a second
    lanes_init,      \* the round's shared initial lane state
    strategy,        \* strategy of the running simulate_round call
    pc,              \* control position
    lanes,           \* simulate_round: working copy
    total_steps,     \* simulate_round: decrements performed
    ambulance_time,  \* simulate_round: stats["ambulance_time"] (x600) or None
    lane_order,      \* simulate_round: lane order of the current while pass
    lane_idx,        \* simulate_round: position of the for loop in lane_order
    step,            \* simulate_round: iterations of the inner loop done
    frames,          \* simulate_round: frames rendered through placeholder
    normal_totals,   \* main: stats of the normal runs
    quantum_totals,  \* main: stats of the quantum runs
    report           \* main: clearance lines written by the report

vars == <<rounds, r, amb_lane, steps_per_lane, step_delay, lanes_init, strategy,
          pc, lanes, total_steps, ambulance_time, lane_order, lane_idx, step,
          frames, normal_totals, quantum_totals, report>>

inputs == <<rounds, amb_lane, steps_per_lane, step_delay>>

\* ------------------------------------------------------ scheduler helpers
Sum(l) == l[0] + l[1] + l[2] + l[3]

RECURSIVE MaxScan(_, _, _)
MaxScan(l, k, best) ==
    IF k > 3 THEN best
    ELSE MaxScan(l, k + 1, IF l[k] > l[best] THEN k ELSE best)

RECURSIVE MaxScanLast(_, _, _)
MaxScanLast(l, k, best) ==
    IF k > 3 THEN best
    ELSE MaxScanLast(l, k + 1, IF l[k] >= l[best] THEN k ELSE best)

max_lane_last(l) == MaxScanLast(l, 1, 0)

\* max(lanes, key=lambda k: lanes[k]): first key of maximal count
max_lane(l) == MaxScan(l, 1, 0)

LaneOrderNoPriority(strat, l, amb) ==
    IF strat = "normal" THEN <<0, 1, 2, 3>> ELSE <<max_lane(l)>>

LaneOrderSwapped(strat, l, amb) ==
    IF strat = "normal" THEN <<0, 2, 1, 3>>
    ELSE IF amb # None /\ l[amb] > 0 THEN <<amb>>
    ELSE <<max_lane(l)>>

\* lines 65-72
LaneOrder(strat, l, amb) ==
    IF strat = "normal" THEN <<0, 1, 2, 3>>
    ELSE IF amb # None /\ l[amb] > 0 THEN <<amb>>
    ELSE <<max_lane(l)>>

DecrementUnguarded(l, lane) == [l EXCEPT ![lane] = @ - 1]

\* lines 79-80
Decrement(l, lane) ==
    IF l[lane] > 0 THEN [l EXCEPT ![lane] = @ - 1] ELSE l

CountStepAlways(l, lane, ts) == ts + 1

\* lines 79, 81
CountStep(l, lane, ts) == IF l[lane] > 0 THEN ts + 1 ELSE ts

RecordAtFirstStep(amb, lane, l, ts, delay, at) ==
    IF amb = lane /\ at = None THEN ts * delay ELSE at

\* lines 92-93; l and ts are the values after the decrement
Record(amb, lane, l, ts, delay, at) ==
    IF amb = lane /\ l[lane] = 0 /\ at = None THEN ts * delay ELSE at

\* lines 83-86: a frame draws the lane counts; its title names the running
\* step count and the lane
Frame(ts, lane, l) ==
    [step |-> ts, lane |-> lane, name |-> LANE_NAMES[lane + 1], lanes |-> l]

\* line 58 / 107: the stats record returned (savings fields not carried)
Stats(at) == [ambulance_time |-> at]

\* --------------------------------------------------------------- report
Truthy(x) == x # None /\ x # 0

\* lines 173-174: [s["ambulance_time"] for s in totals if s["ambulance_time"]]
Samples(totals) ==
    SelectSeq([i \in 1..Len(totals) |-> totals[i].ambulance_time], Truthy)

RECURSIVE SeqSum(_)
SeqSum(s) == IF s = <<>> THEN 0 ELSE Head(s) + SeqSum(Tail(s))

\* pd.Series(...).mean(): NaN for an empty series
Mean(s) ==
    IF s = <<>> THEN [nan |-> TRUE, num |-> 0, den |-> 1]
    ELSE [nan |-> FALSE, num |-> SeqSum(s), den |-> Len(s)]

\* f"{avg:.2f}": "nan" for NaN, else minutes in hundredths
\* (minutes = num / (600 * den))
Format2f(m) ==
    IF m.nan THEN [nan |-> TRUE, hundredths |-> 0]
    ELSE [nan |-> FALSE, hundredths |-> (2 * m.num + 6 * m.den) \div (12 * m.den)]

ReportLine(system, totals) ==
    [system |-> system, shown |-> Format2f(Mean(Samples(totals)))]

\* ----------------------------------------------------------------- Init
InitWith(R, Q, D) ==
    /\ rounds \in R
    /\ r = 1
    /\ amb_lane \in Lanes \cup {None}
    /\ steps_per_lane \in Q
    /\ step_delay \in D
    /\ lanes_init = [i \in Lanes |-> 0]
    /\ strategy = "normal"
    /\ pc = "main_for"
    /\ lanes = [i \in Lanes |-> 0]
    /\ total_steps = 0
    /\ ambulance_time = None
    /\ lane_order = <<>>
    /\ lane_idx = 1
    /\ step = 0
    /\ frames = <<>>
    /\ normal_totals = <<>>
    /\ quantum_totals = <<>>
    /\ report = <<>>

Init == InitWith({1}, Quotas, StepDelays)

InitReport == InitWith(1..MaxRounds, {StepsPerLaneMain}, {DefaultDelay})

\* -------------------------------------------------------------- actions
\* simulate_round entry, lines 57-61
Enter(strat) ==
    /\ strategy' = strat
    /\ lanes' = lanes_init'
    /\ total_steps' = 0
    /\ ambulance_time' = None
    /\ lane_order' = <<>>
    /\ lane_idx' = 1
    /\ step' = 0
    /\ frames' = <<>>
    /\ pc' = "while"

\* main, lines 130-141: next round, fresh lane state, normal run starts
StartRound ==
    /\ pc = "main_for"
    /\ r <= rounds
    /\ \E li \in LaneStates : lanes_init' = li
    /\ Enter("normal")
    /\ UNCHANGED <<inputs, r, normal_totals, quantum_totals, report>>

\* line 63 and lines 65-72
WhileTest ==
    /\ pc = "while"
    /\ IF Sum(lanes) > 0
       THEN /\ lane_order' = LaneOrder(strategy, lanes, amb_lane)
            /\ lane_idx' = 1
            /\ pc' = "for_lane"
       ELSE /\ pc' = "ret"
            /\ UNCHANGED <<lane_order, lane_idx>>
    /\ UNCHANGED <<inputs, r, lanes_init, strategy, lanes, total_steps,
                   ambulance_time, step, frames, normal_totals, quantum_totals,
                   report>>

\* lines 74-76
ForLane ==
    /\ pc = "for_lane"
    /\ IF lane_idx > Len(lane_order)
       THEN /\ pc' = "while"
            /\ UNCHANGED <<lane_idx, step>>
       ELSE IF lanes[lane_order[lane_idx]] = 0
       THEN /\ lane_idx' = lane_idx + 1
            /\ UNCHANGED <<pc, step>>
       ELSE /\ step' = 0
            /\ pc' = "step"
            /\ UNCHANGED lane_idx
    /\ UNCHANGED <<inputs, r, lanes_init, strategy, lanes, total_steps,
                   ambulance_time, lane_order, frames, normal_totals,
                   quantum_totals, report>>

\* lines 78-93: one iteration of the inner loop
StepBody ==
    /\ pc = "step"
    /\ step < steps_per_lane
    /\ LET lane == lane_order[lane_idx]
           l2 == Decrement(lanes, lane)
           ts2 == CountStep(lanes, lane, total_steps)
       IN /\ lanes' = l2
          /\ total_steps' = ts2
          /\ frames' = Append(frames, Frame(ts2, lane, l2))
          /\ ambulance_time' =
                 Record(amb_lane, lane, l2, ts2, step_delay, ambulance_time)
    /\ step' = step + 1
    /\ UNCHANGED <<inputs, r, lanes_init, strategy, pc, lane_order, lane_idx,
                   normal_totals, quantum_totals, report>>

\* lines 95-100: inner loop exhausted
VisitEnd ==
    /\ pc = "step"
    /\ step >= steps_per_lane
    /\ IF strategy = "normal"
       THEN /\ lane_idx' = lane_idx + 1
            /\ pc' = "for_lane"
       ELSE /\ pc' = "while"
            /\ UNCHANGED lane_idx
    /\ UNCHANGED <<inputs, r, lanes_init, strategy, lanes, total_steps,
                   ambulance_time, lane_order, step, frames, normal_totals,
                   quantum_totals, report>>

\* lines 102-107, 142, 145: the normal run returns, the quantum run starts
ReturnNormal ==
    /\ pc = "ret"
    /\ strategy = "normal"
    /\ normal_totals' = Append(normal_totals, Stats(ambulance_time))
    /\ lanes_init' = lanes_init
    /\ Enter("quantum")
    /\ UNCHANGED <<inputs, r, quantum_totals, report>>

\* lines 102-107, 146, 148: the quantum run returns, the round ends
ReturnQuantum ==
    /\ pc = "ret"
    /\ strategy = "quantum"
    /\ quantum_totals' = Append(quantum_totals, Stats(ambulance_time))
    /\ r' = r + 1
    /\ pc' = "main_for"
    /\ lanes' = [i \in Lanes |-> 0]
    /\ total_steps' = 0
    /\ ambulance_time' = None
    /\ lane_order' = <<>>
    /\ lane_idx' = 1
    /\ step' = 0
    /\ frames' = <<>>
    /\ UNCHANGED <<inputs, lanes_init, strategy, normal_totals, report>>

\* lines 171-177
Report ==
    /\ pc = "main_for"
    /\ r > rounds
    /\ report' = IF amb_lane # None
                 THEN <<ReportLine("Normal", normal_totals),
                        ReportLine("Quantum", quantum_totals)>>
                 ELSE <<>>
    /\ pc' = "done"
    /\ UNCHANGED <<inputs, r, lanes_init, strategy, lanes, total_steps,
                   ambulance_time, lane_order, lane_idx, step, frames,
                   normal_totals, quantum_totals>>

Next ==
    \/ StartRound
    \/ WhileTest
    \/ ForLane
    \/ StepBody
    \/ VisitEnd
    \/ ReturnNormal
    \/ ReturnQuantum
    \/ Report

Spec == Init /\ [][Next]_vars

\* the program is one sequential thread: whenever a next statement exists it
\* is eventually executed
SpecFair == Init /\ [][Next]_vars /\ WF_vars(Next)

SpecReport == InitReport /\ [][Next]_vars

\* ------------------------------------------------- derived observations
CurLane == lane_order[lane_idx]

InLoop == pc \in {"while", "for_lane", "step"}

InRun == InLoop \/ pc = "ret"

Min(a, b) == IF a < b THEN a ELSE b

\* total_steps shown by the last frame of the previous visit (0 before the
\* first visit); meaningful when the current visit's inner loop is exhausted
StepsBeforeVisit ==
    IF Len(frames) > steps_per_lane
    THEN frames[Len(frames) - steps_per_lane].step
    ELSE 0

VisitUnits == total_steps - StepsBeforeVisit

AtVisitEnd == pc = "step" /\ step = steps_per_lane

\* every visit renders steps_per_lane frames: visit k is frames (k-1)q+1 .. kq
VisitLog ==
    [k \in 1..(Len(frames) \div steps_per_lane) |->
        LET last == frames[k * steps_per_lane]
            before == IF k = 1 THEN 0 ELSE frames[(k - 1) * steps_per_lane].step
        IN <<last.lane, last.step - before, last.lanes[last.lane]>>]

FirstAfter(p, l) ==
    LET k == CHOOSE k \in 1..4 :
                 /\ l[(p + k) % 4] > 0
                 /\ \A j \in 1..(k - 1) : l[(p + j) % 4] = 0
    IN (p + k) % 4

PrevLane == IF frames = <<>> THEN 3 ELSE frames[Len(frames)].lane

PriorityActive == amb_lane # None /\ lanes[amb_lane] > 0

\* ---------------------------------------------------------------- claims

\* C1: every run of simulate_round, normal or quantum, terminates, and when
\* it returns every lane count is 0 and total_steps equals the sum of the
\* initial counts (so both strategies end with the same step count).
C1_Drained ==
    pc = "ret" => /\ \A l \in Lanes : lanes[l] = 0
                  /\ total_steps = Sum(lanes_init)

C1_Terminates == [](C1_Drained) /\ <>(pc = "done")

C1_Witness ==
    /\ pc = "ret"
    /\ strategy = "quantum"
    /\ Sum(lanes_init) > steps_per_lane
    /\ total_steps = Sum(lanes_init)

\* C2: lane counts are never negative; inside a run a count changes only by
\* a decrement of exactly 1, of one lane, whose count was > 0 before.
C2_DecrementDiscipline ==
    [][/\ \A l \in Lanes : lanes[l] >= 0 /\ lanes'[l] >= 0
       /\ InLoop =>
            \A l \in Lanes : lanes'[l] # lanes[l] =>
                /\ lanes[l] > 0
                /\ lanes'[l] = lanes[l] - 1
                /\ \A k \in Lanes \ {l} : lanes'[k] = lanes[k]]_vars

C2_Witness ==
    /\ AtVisitEnd
    /\ lanes[CurLane] = 0
    /\ VisitUnits > 0
    /\ VisitUnits < steps_per_lane

\* C3: quantum with a priority lane: a choice made while the priority lane
\* is non-empty picks the priority lane alone; the visit that follows
\* decrements only the chosen lane; the choice is made again after the visit.
C3_PriorityFirst ==
    [][(strategy = "quantum" /\ amb_lane # None /\ InLoop) =>
         /\ (pc = "while" /\ lanes[amb_lane] > 0) =>
                lane_order' = <<amb_lane>> /\ lane_idx' = 1 /\ pc' = "for_lane"
         /\ \A l \in Lanes : lanes'[l] # lanes[l] => l = lane_order[1]
         /\ lane_order' # lane_order => pc = "while"
         /\ (pc = "step" /\ pc' # "step") => pc' = "while"]_vars

C3_Witness ==
    /\ strategy = "quantum"
    /\ pc = "step"
    /\ amb_lane # None
    /\ CurLane = amb_lane
    /\ total_steps > 0
    /\ \E k \in Lanes : lanes[k] > lanes_init[amb_lane]

\* C4: quantum with no priority lane active: the choice picks the lane of
\* maximal count, lowest index among ties; that lane alone receives
\* min(quota, its count) decrements and then the choice is made again.
C4_MaxLowestIndex ==
    [][(strategy = "quantum" /\ InLoop) =>
         /\ (pc = "while" /\ Sum(lanes) > 0 /\ ~PriorityActive) =>
                \E k \in Lanes :
                    /\ lane_order' = <<k>> /\ lane_idx' = 1
                    /\ \A j \in Lanes : lanes[j] <= lanes[k]
                    /\ \A j \in Lanes : j < k => lanes[j] < lanes[k]
         /\ (AtVisitEnd /\ CurLane # amb_lane) =>
                /\ VisitUnits = Min(steps_per_lane, lanes[CurLane] + VisitUnits)
                /\ \A k \in Lanes \ {CurLane} :
                       lanes[k] = frames[Len(frames) - steps_per_lane + 1].lanes[k]
                /\ pc' = "while"]_vars

C4_Witness ==
    /\ strategy = "quantum"
    /\ AtVisitEnd
    /\ CurLane # amb_lane
    /\ lanes[CurLane] > 0
    /\ \E k \in Lanes : k > CurLane /\ lanes[k] = lanes[CurLane] + VisitUnits

\* C5: normal strategy: the order is UP, RIGHT, DOWN, LEFT whatever the
\* counts and the priority lane; the lane a visit enters is the first
\* non-empty lane in cyclic order after the lane visited before; an empty
\* lane is skipped without a decrement; a visit gives min(quota, count)
\* decrements.
C5_CyclicOrder ==
    [][(strategy = "normal" /\ InLoop) =>
         /\ pc # "while" => lane_order = <<0, 1, 2, 3>>
         /\ (pc = "for_lane" /\ pc' = "step") =>
                /\ lanes[CurLane] > 0
                /\ CurLane = FirstAfter(PrevLane, lanes)
         /\ (pc = "for_lane" /\ pc' # "step") =>
                UNCHANGED <<lanes, total_steps, frames>>
         /\ AtVisitEnd =>
                VisitUnits = Min(steps_per_lane, lanes[CurLane] + VisitUnits)]_vars

C5_Witness ==
    /\ strategy = "normal"
    /\ pc = "step"
    /\ step = 0
    /\ frames # <<>>
    /\ PrevLane = 3
    /\ CurLane = 1
    /\ lanes_init[0] > 0
    /\ lanes[0] = 0
    /\ amb_lane = 2
    /\ lanes[2] > 0

\* C6: the clearance time is set once, by the decrement that takes the
\* priority lane from 1 to 0, to total_steps (after that decrement) times
\* step_delay, and is not changed afterwards; it stays None when there is
\* no priority lane or the priority lane starts empty.
C6_ClearanceOnce ==
    [][InLoop =>
         /\ ambulance_time' # ambulance_time =>
                /\ ambulance_time = None
                /\ amb_lane # None
                /\ lanes[amb_lane] = 1 /\ lanes'[amb_lane] = 0
                /\ ambulance_time' = total_steps' * step_delay
         /\ (amb_lane # None /\ lanes[amb_lane] = 1 /\ lanes'[amb_lane] = 0) =>
                ambulance_time' = total_steps' * step_delay
         /\ ((amb_lane = None) \/ lanes_init[amb_lane] = 0) =>
                ambulance_time = None /\ ambulance_time' = None]_vars

C6_Witness ==
    /\ pc = "ret"
    /\ amb_lane # None
    /\ ambulance_time # None
    /\ ambulance_time < total_steps * step_delay

\* C7 (as claimed): when a run returns, the number of frames rendered
\* equals the number of decrement steps.
C7_FramesEqualSteps == pc = "ret" => Len(frames) = total_steps

\* C8 (as claimed): example {UP:5, RIGHT:2, DOWN:0, LEFT:3}, quota 3, no
\* priority lane, quantum: visits UP(3, 2 left), UP(2, 0 left), LEFT(3),
\* RIGHT(2); 10 steps.
ExampleReturned ==
    /\ pc = "ret"
    /\ strategy = "quantum"
    /\ lanes_init = ExampleLanes
    /\ steps_per_lane = 3
    /\ amb_lane = None

C8_AsClaimed ==
    ExampleReturned =>
        /\ VisitLog = << <<0, 3, 2>>, <<0, 2, 0>>, <<3, 3, 0>>, <<1, 2, 0>> >>
        /\ total_steps = 10

\* C8 (amended): the visits are UP(3 units, 2 left), LEFT(3 units, 0 left),
\* UP(2 units, 0 left), RIGHT(2 units, 0 left); 10 steps.
C8_Example ==
    ExampleReturned =>
        /\ VisitLog = << <<0, 3, 2>>, <<3, 3, 0>>, <<0, 2, 0>>, <<1, 2, 0>> >>
        /\ total_steps = 10

C8_Witness == ExampleReturned /\ Len(frames) = 12

C10_QuantumClearsFirst ==
    (strategy = "quantum" /\ InRun /\ amb_lane # None /\ lanes_init[amb_lane] > 0) =>
        /\ lanes[amb_lane] > 0 =>
               /\ \A k \in Lanes \ {amb_lane} : lanes[k] = lanes_init[k]
               /\ ambulance_time = None
        /\ lanes[amb_lane] = 0 =>
               ambulance_time = lanes_init[amb_lane] * step_delay
        /\ pc = "ret" =>
               /\ ambulance_time = lanes_init[amb_lane] * step_delay
               /\ normal_totals[Len(normal_totals)].ambulance_time # None
               /\ ambulance_time <= normal_totals[Len(normal_totals)].ambulance_time

C10_Witness ==
    /\ strategy = "quantum"
    /\ pc = "ret"
    /\ amb_lane # None
    /\ lanes_init[amb_lane] > steps_per_lane
    /\ ambulance_time # None
    /\ ambulance_time < normal_totals[Len(normal_totals)].ambulance_time

====
